---- MODULE Spec2Model ----
(***************************************************************************)
(* Telemetry receiver of jmateo27/remote-evane-tester.  The repository     *)
(* holds four iterations of the React Native component App:                *)
(*   "timer" : src/receiverApp/index.tsx lines 1-258   (scan/connected     *)
(*             timers, Connect / Retry / Disconnect buttons)               *)
(*   "auto"  : src/receiverApp/index.tsx lines 260-484 (scan on mount,     *)
(*             disconnect() rescans)                                       *)
(*   "log"   : src/unnamed/part_001 (graph and CSV session logging)        *)
(*   "poll"  : src/unnamed/part_000 (device list, 200 ms read polling)     *)
(* A behaviour runs one of them, chosen in Init.                           *)
(*                                                                         *)
(* Numbers are exact decimals scaled by 10^6 (what toFixed(6) displays);   *)
(* text is a tuple of one-character strings.  A function of the component  *)
(* reads the React state of the render that created it, so every callback  *)
(* carries the snapshot ("closure") of the render it was created in.       *)
(***************************************************************************)
EXTENDS Integers, Sequences, FiniteSets, TLC

\* ------------------------------------------------------------------ values
\* number | null, with NaN as parseFloat can produce it
Null == [k |-> "null", v |-> 0]
NaN == [k |-> "nan", v |-> 0]
Num(x) == [k |-> "num", v |-> x]

\* JS isNaN on a parsed number
isNaN(a) == a.k = "nan"

\* JS a - b on numbers (either operand NaN gives NaN)
Minus(a, b) == IF a.k = "num" /\ b.k = "num" THEN Num(a.v - b.v) ELSE NaN

\* ------------------------------------------------------------------- text
Digits == {"0", "1", "2", "3", "4", "5", "6", "7", "8", "9"}

DigitVal(c) ==
  CASE c = "0" -> 0 [] c = "1" -> 1 [] c = "2" -> 2 [] c = "3" -> 3
    [] c = "4" -> 4 [] c = "5" -> 5 [] c = "6" -> 6 [] c = "7" -> 7
    [] c = "8" -> 8 [] c = "9" -> 9

\* number of decimals kept by the fixed-point representation
FracDigits == 6

RECURSIVE Pow10(_)
Pow10(n) == IF n = 0 THEN 1 ELSE 10 * Pow10(n - 1)

\* index just after the run of digits of s that starts at i (i itself if none)
RECURSIVE DigitsEnd(_, _)
DigitsEnd(s, i) ==
  IF i <= Len(s) /\ s[i] \in Digits THEN DigitsEnd(s, i + 1) ELSE i

\* -?\d+(\.\d+)?  matched greedily at position i of s: the index just after
\* the match, or 0 when there is none
NumberEnd(s, i) ==
  LET j == IF i <= Len(s) /\ s[i] = "-" THEN i + 1 ELSE i
      e == DigitsEnd(s, j)
  IN  IF e = j THEN 0
      ELSE IF e <= Len(s) /\ s[e] = "." /\ DigitsEnd(s, e + 1) > e + 1
           THEN DigitsEnd(s, e + 1)
           ELSE e

\* /^[BV]-?\d+(\.\d+)?,-?\d+(\.\d+)?$/.test(decoded)
IsValid(s) ==
  /\ Len(s) >= 1
  /\ s[1] \in {"B", "V"}
  /\ LET e1 == NumberEnd(s, 2)
     IN  /\ e1 # 0
         /\ e1 <= Len(s)
         /\ s[e1] = ","
         /\ NumberEnd(s, e1 + 1) = Len(s) + 1

\* decoded.match(/^([BV]),(-?\d+(\.\d+)?),(-?\d+(\.\d+)?)$/) is not null
IsMatch(s) ==
  /\ Len(s) >= 2
  /\ s[1] \in {"B", "V"}
  /\ s[2] = ","
  /\ LET e1 == NumberEnd(s, 3)
     IN  /\ e1 # 0
         /\ e1 <= Len(s)
         /\ s[e1] = ","
         /\ NumberEnd(s, e1 + 1) = Len(s) + 1

\* value of the digit run s[i..e-1] read as an integer
RECURSIVE IntOf(_, _, _)
IntOf(s, i, e) ==
  IF i >= e THEN 0 ELSE IntOf(s, i, e - 1) * 10 + DigitVal(s[e - 1])

\* value of the digit run s[i..e-1] read as a fraction, scaled by 10^FracDigits
FracOf(s, i, e) ==
  LET n == e - i
  IN  IF n <= FracDigits THEN IntOf(s, i, e) * Pow10(FracDigits - n)
      ELSE IntOf(s, i, i + FracDigits)

\* parseFloat(s): the longest numeric prefix [+-]?digits[.digits] of s, or NaN
parseFloat(s) ==
  LET neg == Len(s) >= 1 /\ s[1] = "-"
      j == IF Len(s) >= 1 /\ s[1] \in {"-", "+"} THEN 2 ELSE 1
      e == DigitsEnd(s, j)
      hasDot == e <= Len(s) /\ s[e] = "."
      f == IF hasDot THEN DigitsEnd(s, e + 1) ELSE e
      mag == IntOf(s, j, e) * Pow10(FracDigits)
             + (IF hasDot THEN FracOf(s, e + 1, f) ELSE 0)
  IN  IF e = j /\ ~(hasDot /\ f > e + 1) THEN NaN
      ELSE Num(IF neg THEN 0 - mag ELSE mag)

\* s.split(','): the pieces of s between commas
RECURSIVE split(_)
split(s) ==
  IF \A i \in 1..Len(s) : s[i] # "," THEN <<s>>
  ELSE LET p == CHOOSE i \in 1..Len(s) :
                  s[i] = "," /\ \A j \in 1..(i - 1) : s[j] # ","
       IN  <<SubSeq(s, 1, p - 1)>> \o split(SubSeq(s, p + 1, Len(s)))

\* decoded.slice(1) / decoded.substring(1)
slice1(s) == SubSeq(s, 2, Len(s))


\* ----------------------------------------------------------------- bounds
\* cap of the scan-duration counter and of the connected-time counter
MaxScanTime == 1
MaxConnectedTime == 1
\* interval ids of one kind that can be allocated
MaxTimers == 2
\* connect attempts in flight together, notification subscriptions alive together
MaxAttempts == 2
MaxMonitors == 2
\* entries of the log buffer (header included); exports in flight or written
MaxLogEntries == 2
MaxExports == 1
\* pending 10 s scan timeouts of the polling variant
MaxTimeouts == 2
\* last instant of the clock (ms) and points of the graph in the window run
MaxClock == 11000
MaxWindow == 3
\* points inserted at one instant in the burst run
MaxBurst == 101

\* ------------------------------------------------------------------ state
VARIABLES
  variant,            \* which iteration of App runs
  life,               \* "new" (rendered, effects not yet run), "mounted", "unmounted"
  Baseline, Vref, Reading, Value,      \* useState: displayed numbers
  baselineRef,        \* useRef: baseline read by the notification callback
  connectedDevice, connecting,         \* useState
  scanTime, connectedTime,             \* useState counters
  scanTimerRef, connectedTimerRef,     \* useRef: interval id or NoTimer
  readInterval,       \* useRef of the polling variant
  scanning, devices,  \* useState of the polling variant
  isLogging, loggingStartTime, logEntries,   \* useState of the logging variant
  timers,             \* active intervals: set of [id, kind, c]
  scanTimeouts,       \* pending setTimeout callbacks of startScan
  scanListener,       \* the scan callback registered with the BLE manager
  attempts,           \* connect attempts in flight: sequence of [phase, c]
  monitors,           \* live notification subscriptions: sequence of closures
  onDisconnected,     \* closures of the registered onDisconnected handlers
  pendingDisc,        \* a disconnect event is due to the registered handlers
  link,               \* the radio link to the transmitter: "up" or "down"
  exports,            \* stopLogging calls past setIsLogging(false): captured logEntries
  files,              \* contents written to logs/, in order of the suffix n
  graphData,          \* useState of the logging variant: points of the live graph
  clock               \* Date.now() of the graph's runs, in ms

vars == <<variant, life, Baseline, Vref, Reading, Value, baselineRef,
          connectedDevice, connecting, scanTime, connectedTime, scanTimerRef,
          connectedTimerRef, readInterval, scanning, devices, isLogging,
          loggingStartTime, logEntries, timers, scanTimeouts, scanListener,
          attempts, monitors, onDisconnected, pendingDisc, link, exports,
          files, graphData, clock>>

Variants == {"timer", "auto", "log", "poll"}

\* connectedDevice: null or the Device returned by connect()
NoDevice == "null"
TARGET_NAME == "TRANSMITTER"

\* useRef<NodeJS.Timer | null>(null): interval ids are positive
NoTimer == 0

\* the snapshot of React state a function of one render reads
NoClosure == [cd |-> NoDevice, log |-> FALSE, t0 |-> Null, bl |-> Null]

NoScan == [on |-> FALSE, c |-> NoClosure]

\* the state of the connection, the display and the logger as one record;
\* handlers are functions from record to record. graphData is written by the
\* notification callback and by disconnect and read by the chart alone: it is
\* followed on its own, with a running clock, in SpecWindow and SpecBurst.
Cur ==
  [variant |-> variant, life |-> life, Baseline |-> Baseline, Vref |-> Vref,
   Reading |-> Reading, Value |-> Value, baselineRef |-> baselineRef,
   connectedDevice |-> connectedDevice, connecting |-> connecting,
   scanTime |-> scanTime, connectedTime |-> connectedTime,
   scanTimerRef |-> scanTimerRef, connectedTimerRef |-> connectedTimerRef,
   readInterval |-> readInterval, scanning |-> scanning, devices |-> devices,
   isLogging |-> isLogging, loggingStartTime |-> loggingStartTime,
   logEntries |-> logEntries, timers |-> timers, scanTimeouts |-> scanTimeouts,
   scanListener |-> scanListener, attempts |-> attempts, monitors |-> monitors,
   onDisconnected |-> onDisconnected, pendingDisc |-> pendingDisc,
   link |-> link, exports |-> exports, files |-> files]

Commit(r) ==
  /\ variant' = r.variant /\ life' = r.life
  /\ Baseline' = r.Baseline /\ Vref' = r.Vref
  /\ Reading' = r.Reading /\ Value' = r.Value
  /\ baselineRef' = r.baselineRef
  /\ connectedDevice' = r.connectedDevice /\ connecting' = r.connecting
  /\ scanTime' = r.scanTime /\ connectedTime' = r.connectedTime
  /\ scanTimerRef' = r.scanTimerRef /\ connectedTimerRef' = r.connectedTimerRef
  /\ readInterval' = r.readInterval
  /\ scanning' = r.scanning /\ devices' = r.devices
  /\ isLogging' = r.isLogging /\ loggingStartTime' = r.loggingStartTime
  /\ logEntries' = r.logEntries
  /\ timers' = r.timers /\ scanTimeouts' = r.scanTimeouts
  /\ scanListener' = r.scanListener /\ attempts' = r.attempts
  /\ monitors' = r.monitors /\ onDisconnected' = r.onDisconnected
  /\ pendingDisc' = r.pendingDisc /\ link' = r.link
  /\ exports' = r.exports /\ files' = r.files
  /\ UNCHANGED <<graphData, clock>>

\* state after the first render of App
Init == \E v \in Variants :
  /\ variant = v /\ life = "new"
  /\ Baseline = Null /\ Vref = Null /\ Reading = Null /\ Value = Null
  /\ baselineRef = Null
  /\ connectedDevice = NoDevice /\ connecting = FALSE
  /\ scanTime = 0 /\ connectedTime = 0
  /\ scanTimerRef = NoTimer /\ connectedTimerRef = NoTimer
  /\ readInterval = NoTimer /\ scanning = FALSE /\ devices = {}
  /\ isLogging = FALSE /\ loggingStartTime = Null /\ logEntries = <<>>
  /\ timers = {} /\ scanTimeouts = 0
  /\ scanListener = NoScan /\ attempts = <<>> /\ monitors = <<>>
  /\ onDisconnected = {} /\ pendingDisc = FALSE
  /\ link = "down" /\ exports = <<>> /\ files = <<>>
  /\ graphData = <<>> /\ clock = 0

\* the closure of the functions created by the current render: the fields
\* of React state that the callbacks of this variant read (loggingStartTime
\* is read only behind isLogging &&)
Capture(s) ==
  [cd |-> s.connectedDevice,
   log |-> IF s.variant = "log" THEN s.isLogging ELSE FALSE,
   t0 |-> IF s.variant = "log" /\ s.isLogging THEN s.loggingStartTime ELSE Null,
   bl |-> IF s.variant = "poll" THEN s.Baseline ELSE Null]

\* what disconnect, the onDisconnected handler, reads of its closure
HandlerClosure(c) == [NoClosure EXCEPT !.cd = c.cd]

\* what the notification callback reads of its closure: connectedDevice through
\* disconnect() (timer, auto), isLogging and loggingStartTime (log)
MonitorClosure(v, c) ==
  IF v = "log" THEN [NoClosure EXCEPT !.log = c.log, !.t0 = c.t0]
  ELSE [NoClosure EXCEPT !.cd = c.cd]

\* what the read callback of the polling variant reads of its closure
ReadClosure(c) == [NoClosure EXCEPT !.bl = c.bl]


\* ----------------------------------------------------------------- timers
\* Interval ids are opaque; they are numbered per kind of interval ("scan",
\* "connected", "read"), each kind being held by one ref only.
\* clearInterval(id) on an id of the given kind
clearInterval(s, kind, id) ==
  [s EXCEPT !.timers = {t \in @ : ~(t.kind = kind /\ t.id = id)}]

\* if (ref.current) clearInterval(ref.current)
clearIfSet(s, kind, id) == IF id # NoTimer THEN clearInterval(s, kind, id) ELSE s

\* ids setInterval can return for an interval of the kind: not active
FreeTimers(s, kind) ==
  {i \in 1..MaxTimers : \A t \in s.timers : ~(t.kind = kind /\ t.id = i)}

NewTimer(s, kind) ==
  CHOOSE i \in FreeTimers(s, kind) : \A j \in FreeTimers(s, kind) : i <= j

\* ------------------------------------------------------------ BLE manager
\* bleManager.stopDeviceScan()
stopDeviceScan(s) == [s EXCEPT !.scanListener = NoScan]

\* bleManager.startDeviceScan(null, null, callback): one scan at a time
startDeviceScan(s, c) == [s EXCEPT !.scanListener = [on |-> TRUE, c |-> c]]

\* the link goes down: its subscriptions end and the registered onDisconnected
\* handlers are due
linkDown(s) ==
  [s EXCEPT !.link = "down",
            !.pendingDisc = (s.onDisconnected # {}),
            !.monitors = <<>>]

\* device.cancelConnection(): drops the link if there is one (throws, and the
\* caller catches, if there is none)
cancelConnection(s) == IF s.link = "up" THEN linkDown(s) ELSE s

\* sequence q without its i-th element
RemoveAt(q, i) == SubSeq(q, 1, i - 1) \o SubSeq(q, i + 1, Len(q))

\* ----------------------------------------------- value derivation, decode
\* updateBaseline(value)
updateBaseline(s, value) == [s EXCEPT !.baselineRef = value, !.Baseline = value]

\* a deriver that lost its null check: secondFloat - null is secondFloat
deriveValueUnguarded(s, secondFloat) ==
  [s EXCEPT !.Value = IF s.baselineRef # Null
                      THEN Minus(secondFloat, s.baselineRef)
                      ELSE secondFloat]

\* if (baselineRef.current !== null) setValue(secondFloat - baselineRef.current)
deriveValue(s, secondFloat) ==
  IF s.baselineRef # Null
  THEN [s EXCEPT !.Value = Minus(secondFloat, s.baselineRef)]
  ELSE s

\* monitorNotifications callback of the timer and auto variants, value branch:
\* decoded is the base64-decoded characteristic value (empty when absent)
onCharacteristic(s, decoded) ==
  IF decoded = <<>> THEN s
  ELSE IF ~IsValid(decoded) THEN s
  ELSE LET type == decoded[1]
           parts == split(slice1(decoded))
           firstFloat == parseFloat(parts[1])
           secondFloat == parseFloat(parts[2])
           s1 == [s EXCEPT !.Reading = secondFloat]
           s2 == IF type = "B" THEN updateBaseline(s1, firstFloat)
                 ELSE IF type = "V" THEN [s1 EXCEPT !.Vref = firstFloat]
                 ELSE s1
       IN  IF isNaN(firstFloat) \/ isNaN(secondFloat) THEN s
           ELSE deriveValue(s2, secondFloat)

\* Date.now() and new Date(): the clock is not advanced, every read returns
\* the same instant, so timeSinceStart is 0 in every row
DateNow == 0

\* one line of the log buffer: the 5-line header or a data row
\* `${timeSinceStart},${value.toFixed(6)}`
HeaderEntry(t, b) == [header |-> TRUE, t |-> t, v |-> b]
RowEntry(t, v) == [header |-> FALSE, t |-> t, v |-> v]

\* if (isLogging && loggingStartTime !== null) setLogEntries(prev => [...prev, row])
logValue(s, c, value) ==
  IF c.log /\ c.t0 # Null
  THEN [s EXCEPT !.logEntries = Append(@, RowEntry(DateNow - c.t0.v, value))]
  ELSE s

\* monitorNotifications callback of the log variant (the error argument is
\* ignored; an absent value decodes to the empty text)
onCharacteristicLog(s, c, decoded) ==
  IF ~IsMatch(decoded) THEN s
  ELSE LET type == decoded[1]
           e1 == NumberEnd(decoded, 3)
           first == parseFloat(SubSeq(decoded, 3, e1 - 1))
           second == parseFloat(SubSeq(decoded, e1 + 1, Len(decoded)))
           s1 == [s EXCEPT !.Reading = second]
           s2 == IF type = "B" THEN updateBaseline(s1, first)
                 ELSE [s1 EXCEPT !.Vref = first]
       IN  IF s2.baselineRef # Null
           THEN LET value == Minus(second, s2.baselineRef)
                IN  logValue([s2 EXCEPT !.Value = value], c, value)
           ELSE s2

\* setValue((prev) => ...) of the polling callback; Baseline is the closure's
pollValue(type, firstFloat, secondFloat, closureBaseline, prev) ==
  IF type = "B"
  THEN IF ~isNaN(secondFloat) THEN Minus(secondFloat, firstFloat) ELSE Null
  ELSE IF ~isNaN(secondFloat) /\ closureBaseline # Null
       THEN Minus(secondFloat, closureBaseline)
       ELSE prev

\* the read callback of the polling variant
onRead(s, c, decoded) ==
  IF decoded = <<>> THEN s
  ELSE LET type == decoded[1]
           parts == split(slice1(decoded))
       IN  IF Len(parts) # 2 THEN s
           ELSE LET firstFloat == parseFloat(parts[1])
                    secondFloat == parseFloat(parts[2])
                    s1 == IF type = "B" THEN [s EXCEPT !.Baseline = firstFloat]
                          ELSE IF type = "V" THEN [s EXCEPT !.Vref = firstFloat]
                          ELSE s
                IN  [s1 EXCEPT !.Reading = secondFloat,
                               !.Value = pollValue(type, firstFloat, secondFloat,
                                                   c.bl, s.Value)]


\* ------------------------------------------------- connection: timer variant
clearDisplay(s) ==
  [s EXCEPT !.connectedDevice = NoDevice, !.Baseline = Null, !.Vref = Null,
            !.Reading = Null, !.Value = Null]

\* device.monitorCharacteristicForService(SERVICE_UUID, CHARACTERISTIC_UUID, cb)
monitorNotifications(s, c) ==
  [s EXCEPT !.monitors = Append(@, MonitorClosure(s.variant, c))]

\* startScanAndConnect of the timer variant; perm is requestPermissions()
startScanAndConnectTimer(s, c, perm) ==
  IF ~perm THEN [s EXCEPT !.connecting = FALSE]
  ELSE LET s1 == [s EXCEPT !.scanTime = 0, !.connecting = TRUE]
           s2 == clearIfSet(s1, "scan", s1.scanTimerRef)
           id == NewTimer(s2, "scan")
           s3 == [s2 EXCEPT !.timers = @ \cup {[id |-> id, kind |-> "scan", c |-> NoClosure]},
                            !.scanTimerRef = id]
       IN  startDeviceScan(s3, c)

\* scan callback, error branch
scanErrorTimer(s) ==
  clearInterval([stopDeviceScan(s) EXCEPT !.connecting = FALSE], "scan",
                s.scanTimerRef)

\* scan callback, device?.name === TARGET_NAME, up to await device.connect()
scanFoundTimer(s, c) ==
  [clearInterval(stopDeviceScan(s), "scan", s.scanTimerRef)
     EXCEPT !.attempts = Append(@, [phase |-> "connect", c |-> c])]

\* scan callback after connect() and discoverAllServicesAndCharacteristics()
connectedTimer(s, c) ==
  LET s1 == monitorNotifications([s EXCEPT !.connectedDevice = TARGET_NAME], c)
      id == NewTimer(s1, "connected")
  IN  [s1 EXCEPT !.connectedTime = 0,
                 !.timers = @ \cup {[id |-> id, kind |-> "connected", c |-> NoClosure]},
                 !.connectedTimerRef = id,
                 !.onDisconnected = @ \cup {HandlerClosure(c)},
                 !.connecting = FALSE]

\* scan callback, catch branch
connectFailedTimer(s) == [s EXCEPT !.connecting = FALSE]

\* disconnect() of the timer variant, run with the closure c
disconnectTimer(s, c) ==
  LET s1 == IF c.cd # NoDevice THEN cancelConnection(s) ELSE s
      s2 == clearIfSet(clearIfSet(s1, "connected", s1.connectedTimerRef),
                       "scan", s1.scanTimerRef)
  IN  [clearDisplay(s2) EXCEPT !.connecting = FALSE, !.connectedTime = 0,
                               !.scanTime = 0]

\* useEffect cleanup of the timer variant, after bleManager.destroy()
cleanupTimer(s) ==
  clearIfSet(clearIfSet(s, "scan", s.scanTimerRef), "connected",
             s.connectedTimerRef)

\* -------------------------------------------------- connection: auto variant
startScanAndConnectAuto(s, c, perm) ==
  IF ~perm THEN s
  ELSE startDeviceScan(stopDeviceScan([s EXCEPT !.connecting = TRUE]), c)

scanErrorAuto(s) == [s EXCEPT !.connecting = FALSE]

scanFoundAuto(s, c) ==
  [stopDeviceScan(s) EXCEPT !.attempts = Append(@, [phase |-> "connect", c |-> c])]

connectedAuto(s, c) ==
  [monitorNotifications([s EXCEPT !.connectedDevice = TARGET_NAME], c)
     EXCEPT !.onDisconnected = @ \cup {HandlerClosure(c)}, !.connecting = FALSE]

connectFailedAuto(s) == [s EXCEPT !.connecting = FALSE]

\* disconnect() of the auto variant: clears only if the closure saw a device,
\* then scans again
disconnectAuto(s, c, perm) ==
  LET s1 == IF c.cd # NoDevice THEN clearDisplay(cancelConnection(s)) ELSE s
  IN  startScanAndConnectAuto([s1 EXCEPT !.connecting = TRUE], c, perm)

\* --------------------------------------------------- connection: log variant
startScanAndConnectLog(s, c, perm) ==
  IF ~perm THEN s
  ELSE LET s1 == [s EXCEPT !.scanTime = 0, !.connecting = TRUE]
           s2 == clearIfSet(s1, "scan", s1.scanTimerRef)
           id == NewTimer(s2, "scan")
           s3 == [s2 EXCEPT !.timers = @ \cup {[id |-> id, kind |-> "scan", c |-> NoClosure]},
                            !.scanTimerRef = id]
       IN  startDeviceScan(s3, c)

scanErrorLog(s) ==
  [clearInterval(stopDeviceScan(s), "scan", s.scanTimerRef) EXCEPT !.connecting = FALSE]

scanFoundLog(s, c) ==
  [clearInterval(stopDeviceScan(s), "scan", s.scanTimerRef)
     EXCEPT !.attempts = Append(@, [phase |-> "connect", c |-> c])]

connectedLog(s, c) ==
  [monitorNotifications([s EXCEPT !.connectedDevice = TARGET_NAME], c)
     EXCEPT !.onDisconnected = @ \cup {HandlerClosure(c)}, !.connecting = FALSE,
            !.scanTime = 0]

connectFailedLog(s) == [s EXCEPT !.connecting = FALSE, !.scanTime = 0]

disconnectLog(s, c) ==
  LET s1 == IF c.cd # NoDevice THEN cancelConnection(s) ELSE s
  IN  clearIfSet([clearDisplay(s1) EXCEPT !.connecting = FALSE], "scan",
                 s1.scanTimerRef)

\* ------------------------------------------------------------ session logger
\* startLogging()
startLogging(s) ==
  [s EXCEPT !.loggingStartTime = Num(DateNow),
            !.logEntries = <<HeaderEntry(DateNow, s.Baseline)>>,
            !.isLogging = TRUE]

\* stopLogging() up to its first await; the write uses this render's logEntries
stopLogging(s) ==
  [s EXCEPT !.isLogging = FALSE,
            !.exports = Append(@, [rows |-> s.logEntries, n |-> 0])]

\* stopLogging(): the getInfoAsync loop ends at the first n whose file does
\* not exist; the files of logs/ are numbered 1..Len(files) and none is
\* ever deleted
exportNamed(s, i) == [s EXCEPT !.exports[i].n = Len(s.files) + 1]

\* stopLogging() from writeAsStringAsync on: the file with the next free suffix
exportWritten(s, i) ==
  LET e == s.exports[i]
  IN  [s EXCEPT !.files = IF e.n <= Len(@) THEN [@ EXCEPT ![e.n] = e.rows]
                          ELSE Append(@, e.rows),
                !.exports = RemoveAt(@, i)]

\* a stopLogging whose failure path drops the buffer
exportFailedDiscarding(s, i) ==
  [s EXCEPT !.exports = RemoveAt(@, i), !.logEntries = <<>>]

\* stopLogging() when one of its awaits rejects: there is no try/catch, the
\* function ends there and the promise it returned to its caller rejects
exportFailed(s, i) == [s EXCEPT !.exports = RemoveAt(@, i)]

\* lines of logEntries.join('\n'): the header entry holds five lines
RECURSIVE LineCount(_)
LineCount(entries) ==
  IF entries = <<>> THEN 0
  ELSE (IF Head(entries).header THEN 5 ELSE 1) + LineCount(Tail(entries))

\* ------------------------------------------------- connection: poll variant
\* startScan()
startScan(s, perm) ==
  IF ~perm THEN s
  ELSE [startDeviceScan([s EXCEPT !.devices = {}, !.scanning = TRUE], NoClosure)
          EXCEPT !.scanTimeouts = @ + 1]

scanErrorPoll(s) == [s EXCEPT !.scanning = FALSE]

scanFoundPoll(s) == [s EXCEPT !.devices = @ \cup {TARGET_NAME}]

\* the setTimeout callback of startScan
scanTimeout(s) ==
  [stopDeviceScan(s) EXCEPT !.scanning = FALSE, !.scanTimeouts = @ - 1]

\* connectToDevice(device) up to await device.connect()
connectToDevice(s, c) ==
  [stopDeviceScan(s) EXCEPT !.scanning = FALSE,
                            !.attempts = Append(@, [phase |-> "connect", c |-> c])]

\* connectToDevice after discoverAllServicesAndCharacteristics()
connectedPoll(s, c) ==
  LET id == NewTimer(s, "read")
  IN  [s EXCEPT !.connectedDevice = TARGET_NAME,
                !.timers = @ \cup {[id |-> id, kind |-> "read", c |-> ReadClosure(c)]},
                !.readInterval = id]

connectFailedPoll(s) == s

disconnectPoll(s, c) ==
  IF c.cd # NoDevice
  THEN clearDisplay(cancelConnection(
         [clearIfSet(s, "read", s.readInterval) EXCEPT !.readInterval = NoTimer]))
  ELSE s

cleanupPoll(s) == clearIfSet(s, "read", s.readInterval)

\* bleManager.destroy(): nothing of the manager calls back any more
destroy(s) ==
  [s EXCEPT !.scanListener = NoScan, !.attempts = <<>>, !.monitors = <<>>,
            !.onDisconnected = {}, !.pendingDisc = FALSE, !.link = "down"]


\* ------------------------------------------------------------------ inputs
\* decoded payloads the transmitter side can deliver
\* "B1.000000,1.005000"
FrameB ==
  <<"B", "1", ".", "0", "0", "0", "0", "0", "0", ",", "1", ".", "0", "0", "5", "0", "0", "0">>
\* "V0.500000,1.005000"
FrameV ==
  <<"V", "0", ".", "5", "0", "0", "0", "0", "0", ",", "1", ".", "0", "0", "5", "0", "0", "0">>
\* "B2,1"
FrameB2 ==
  <<"B", "2", ",", "1">>
\* "X1,2"
FrameX ==
  <<"X", "1", ",", "2">>
\* "B1"
FrameShort ==
  <<"B", "1">>
\* "B1,abc"
FrameAbc ==
  <<"B", "1", ",", "a", "b", "c">>
\* "B,1.000000,1.005000"
FrameCommaB ==
  <<"B", ",", "1", ".", "0", "0", "0", "0", "0", "0", ",", "1", ".", "0", "0", "5", "0", "0", "0">>
\* characteristic absent (an error is reported instead): ''
FrameEmpty == <<>>

Frames ==
  {FrameB, FrameV, FrameB2, FrameX, FrameShort, FrameAbc, FrameCommaB}

\* ----------------------------------------------------------------- actions
startScanAndConnect(s, c, perm) ==
  CASE s.variant = "timer" -> startScanAndConnectTimer(s, c, perm)
    [] s.variant = "auto" -> startScanAndConnectAuto(s, c, perm)
    [] s.variant = "log" -> startScanAndConnectLog(s, c, perm)

disconnect(s, c, perm) ==
  CASE s.variant = "timer" -> disconnectTimer(s, c)
    [] s.variant = "auto" -> disconnectAuto(s, c, perm)
    [] s.variant = "log" -> disconnectLog(s, c)
    [] s.variant = "poll" -> disconnectPoll(s, c)

\* an interval id is left for the scan timer of startScanAndConnect
CanStartScanTimer(s) ==
  FreeTimers(clearIfSet(s, "scan", s.scanTimerRef), "scan") # {}

\* first effects after mount: the auto variant starts scanning by itself
Mount ==
  /\ life = "new"
  /\ \E perm \in BOOLEAN :
       Commit([(IF variant = "auto"
              THEN startScanAndConnectAuto(Cur, Capture(Cur), perm)
              ELSE Cur) EXCEPT !.life = "mounted"])

\* Button "Connect": rendered while !connecting && !connectedDevice
PressConnect ==
  /\ life = "mounted" /\ variant \in {"timer", "log"}
  /\ ~connecting /\ connectedDevice = NoDevice
  /\ CanStartScanTimer(Cur)
  /\ \E perm \in BOOLEAN :
       Commit(startScanAndConnect(Cur, Capture(Cur), perm))

\* Button "Retry": rendered while connecting
PressRetry ==
  /\ life = "mounted" /\ variant \in {"timer", "log"}
  /\ connecting
  /\ CanStartScanTimer(Cur)
  /\ \E perm \in BOOLEAN :
       Commit(startScanAndConnect(Cur, Capture(Cur), perm))

\* Button "Disconnect": rendered while connectedDevice
PressDisconnect ==
  /\ life = "mounted" /\ variant \in {"timer", "log", "poll"}
  /\ connectedDevice # NoDevice
  /\ Commit(disconnect(Cur, Capture(Cur), TRUE))

\* the scan reports an error to the registered callback
ScanError ==
  /\ life = "mounted" /\ scanListener.on
  /\ Commit(CASE variant = "timer" -> scanErrorTimer(Cur)
            [] variant = "auto" -> scanErrorAuto(Cur)
            [] variant = "log" -> scanErrorLog(Cur)
            [] variant = "poll" -> scanErrorPoll(Cur))

\* the scan reports the transmitter to the registered callback
ScanFound ==
  /\ life = "mounted" /\ scanListener.on
  /\ variant = "poll" \/ Len(attempts) < MaxAttempts
  /\ Commit(CASE variant = "timer" -> scanFoundTimer(Cur, scanListener.c)
            [] variant = "auto" -> scanFoundAuto(Cur, scanListener.c)
            [] variant = "log" -> scanFoundLog(Cur, scanListener.c)
            [] variant = "poll" -> scanFoundPoll(Cur))

\* device.connect() resolves: the link is up, service discovery begins
ConnectResolved ==
  /\ life = "mounted"
  /\ \E i \in DOMAIN attempts :
       /\ attempts[i].phase = "connect"
       /\ Commit([Cur EXCEPT !.link = "up", !.attempts[i].phase = "discover"])

\* device.connect() or discoverAllServicesAndCharacteristics() rejects
ConnectFailed ==
  /\ life = "mounted"
  /\ \E i \in DOMAIN attempts :
       LET s == [Cur EXCEPT !.attempts = RemoveAt(@, i)]
       IN  Commit(CASE variant = "timer" -> connectFailedTimer(s)
                  [] variant = "auto" -> connectFailedAuto(s)
                  [] variant = "log" -> connectFailedLog(s)
                  [] variant = "poll" -> connectFailedPoll(s))

\* discoverAllServicesAndCharacteristics() resolves
Connected ==
  /\ life = "mounted" /\ link = "up"
  /\ variant = "poll" \/ Len(monitors) < MaxMonitors
  /\ \E i \in DOMAIN attempts :
       /\ attempts[i].phase = "discover"
       /\ LET s == [Cur EXCEPT !.attempts = RemoveAt(@, i)]
              c == attempts[i].c
          IN  /\ variant = "timer" => FreeTimers(s, "connected") # {}
              /\ variant = "poll" => FreeTimers(s, "read") # {}
              /\ Commit(CASE variant = "timer" -> connectedTimer(s, c)
                        [] variant = "auto" -> connectedAuto(s, c)
                        [] variant = "log" -> connectedLog(s, c)
                        [] variant = "poll" -> connectedPoll(s, c))

\* the radio link is lost
LinkLoss ==
  /\ life = "mounted" /\ link = "up"
  /\ Commit(linkDown(Cur))

\* connected.onDisconnected(...) handler of closure c
onDisconnectedHandler(s, c, perm) ==
  CASE s.variant = "timer" -> disconnectTimer(s, c)
    [] s.variant = "auto" -> disconnectAuto(s, c, perm)
    [] s.variant = "log" -> disconnectLog(s, c)

\* every handler of the set hs is called, one after the other
RECURSIVE fireHandlers(_, _, _)
fireHandlers(s, hs, perm) ==
  IF hs = {} THEN s
  ELSE LET c == CHOOSE h \in hs : TRUE
       IN  fireHandlers(onDisconnectedHandler(s, c, perm), hs \ {c}, perm)

\* the disconnect event of the device reaches the registered handlers; perm
\* is the answer of requestPermissions() should a handler scan again
DisconnectedEventOf(perm) ==
  /\ life = "mounted" /\ pendingDisc
  /\ Commit(fireHandlers([Cur EXCEPT !.pendingDisc = FALSE],
                         onDisconnected, perm))

DisconnectedEvent == \E perm \in BOOLEAN : DisconnectedEventOf(perm)

\* a subscription reports an error to its callback and ends; perm is the
\* answer of requestPermissions() should the callback scan again
NotificationErrorOf(perm) ==
  /\ life = "mounted"
  /\ \E i \in DOMAIN monitors :
       LET s == [Cur EXCEPT !.monitors = RemoveAt(@, i)]
           c == monitors[i]
       IN  Commit(CASE variant = "timer" -> disconnectTimer(s, c)
                  [] variant = "auto" -> disconnectAuto(s, c, perm)
                  [] variant = "log" -> onCharacteristicLog(s, c, FrameEmpty))

NotificationError == \E perm \in BOOLEAN : NotificationErrorOf(perm)

\* the callback of a subscription created with closure m runs on the payload
onNotification(s, m, decoded) ==
  IF s.variant = "log" THEN onCharacteristicLog(s, m, decoded)
  ELSE onCharacteristic(s, decoded)

\* one notification reaches the callback of every live subscription, in order
RECURSIVE deliver(_, _, _)
deliver(s, i, decoded) ==
  IF i > Len(s.monitors) THEN s
  ELSE deliver(onNotification(s, s.monitors[i], decoded), i + 1, decoded)

\* the transmitter notifies the frame f
NotificationOf(f) ==
  /\ life = "mounted" /\ link = "up" /\ monitors # <<>>
  /\ LET r == deliver(Cur, 1, f)
     IN  /\ Len(r.logEntries) <= MaxLogEntries
         /\ Commit(r)

Notification == \E f \in Frames : NotificationOf(f)

\* the scan-duration interval fires: setScanTime(prev => prev + 1)
ScanTick ==
  /\ life = "mounted" /\ scanTime < MaxScanTime
  /\ \E t \in timers : t.kind = "scan"
  /\ Commit([Cur EXCEPT !.scanTime = @ + 1])

\* the connected-time interval fires: setConnectedTime(prev => prev + 1)
ConnectedTick ==
  /\ life = "mounted" /\ connectedTime < MaxConnectedTime
  /\ \E t \in timers : t.kind = "connected"
  /\ Commit([Cur EXCEPT !.connectedTime = @ + 1])

\* a read interval fires and its read returns the frame f
PollReadOf(f) ==
  /\ life = "mounted" /\ link = "up"
  /\ \E t \in timers :
       /\ t.kind = "read"
       /\ Commit(onRead(Cur, t.c, f))

PollRead == \E f \in Frames : PollReadOf(f)

\* Button "Start Logging": rendered while connectedDevice && !isLogging
PressStartLogging ==
  /\ life = "mounted" /\ variant = "log"
  /\ connectedDevice # NoDevice /\ ~isLogging
  /\ Commit(startLogging(Cur))

\* Button "Stop Logging": rendered while connectedDevice && isLogging
PressStopLogging ==
  /\ life = "mounted" /\ variant = "log"
  /\ connectedDevice # NoDevice /\ isLogging
  /\ Len(exports) + Len(files) < MaxExports
  /\ Commit(stopLogging(Cur))

\* makeDirectoryAsync has resolved and the getInfoAsync loop ends: the name
\* of the file is chosen, and other callbacks run before the write resolves
ExportNamed ==
  /\ life = "mounted"
  /\ \E i \in DOMAIN exports :
       exports[i].n = 0 /\ Commit(exportNamed(Cur, i))

\* writeAsStringAsync resolves; when no callback ran since makeDirectoryAsync
\* was called, the name is chosen in the same step
ExportWritten ==
  /\ life = "mounted"
  /\ \E i \in DOMAIN exports :
       Commit(exportWritten(IF exports[i].n = 0 THEN exportNamed(Cur, i)
                            ELSE Cur, i))

\* makeDirectoryAsync, getInfoAsync or writeAsStringAsync rejects
ExportFailed ==
  /\ life = "mounted"
  /\ \E i \in DOMAIN exports : Commit(exportFailed(Cur, i))

\* Button "Scan for Transmitter": rendered while !connectedDevice, disabled
\* while scanning
PressScan ==
  /\ life = "mounted" /\ variant = "poll"
  /\ connectedDevice = NoDevice /\ ~scanning
  /\ scanTimeouts < MaxTimeouts
  /\ \E perm \in BOOLEAN : Commit(startScan(Cur, perm))

\* the 10 s timeout of a startScan fires
ScanTimeout ==
  /\ life = "mounted" /\ scanTimeouts > 0
  /\ Commit(scanTimeout(Cur))

\* a device of the list is pressed: rendered while !connectedDevice
PressDevice ==
  /\ life = "mounted" /\ variant = "poll"
  /\ connectedDevice = NoDevice /\ TARGET_NAME \in devices
  /\ Len(attempts) < MaxAttempts
  /\ Commit(connectToDevice(Cur, Capture(Cur)))

\* what is left of s once the component is gone: its useState and useRef
\* cells no longer exist; intervals, the BLE manager and the files remain
unmounted(s) ==
  [s EXCEPT !.life = "unmounted",
            !.Baseline = Null, !.Vref = Null, !.Reading = Null, !.Value = Null,
            !.baselineRef = Null, !.connectedDevice = NoDevice,
            !.connecting = FALSE, !.scanTime = 0, !.connectedTime = 0,
            !.scanTimerRef = NoTimer, !.connectedTimerRef = NoTimer,
            !.readInterval = NoTimer, !.scanning = FALSE, !.devices = {},
            !.isLogging = FALSE, !.loggingStartTime = Null,
            !.logEntries = <<>>]

\* the component unmounts: the useEffect cleanup runs (the log variant has none)
Unmount ==
  /\ life = "mounted"
  /\ Commit(unmounted(CASE variant = "timer" -> cleanupTimer(destroy(Cur))
                        [] variant = "auto" -> destroy(Cur)
                        [] variant = "log" -> Cur
                        [] variant = "poll" -> cleanupPoll(destroy(Cur))))

Next ==
  \/ Mount \/ PressConnect \/ PressRetry \/ PressDisconnect
  \/ ScanError \/ ScanFound \/ ConnectResolved \/ ConnectFailed \/ Connected
  \/ LinkLoss \/ DisconnectedEvent \/ NotificationError \/ Notification
  \/ ScanTick \/ ConnectedTick \/ PollRead
  \/ PressStartLogging \/ PressStopLogging \/ ExportWritten \/ ExportFailed
  \/ PressScan \/ ScanTimeout \/ PressDevice \/ Unmount

Spec == Init /\ [][Next]_vars

TypeOK == variant \in Variants

\* ------------------------------------------- the session logger called directly
\* startLogging() invoked as a function, whatever the buttons show
CallStartLogging ==
  /\ life = "mounted" /\ variant = "log"
  /\ Commit(startLogging(Cur))

InitLog == Init /\ variant = "log"

\* one connection of the log variant, with the logger's functions called freely
NextLogger ==
  \/ Mount \/ PressConnect \/ ScanFound \/ ConnectResolved \/ Connected
  \/ PressDisconnect \/ DisconnectedEvent \/ Notification
  \/ CallStartLogging \/ PressStopLogging \/ ExportWritten \/ ExportFailed

SpecLogger == InitLog /\ [][NextLogger]_vars

\* ------------------------------------------------------------------ claims
\* the manager is Scanning when a device scan is running
Scanning == scanListener.on

\* the baseline the deriver subtracts: baselineRef, or the Baseline state of
\* the poll variant, which has no ref
CalBaseline == IF variant = "poll" THEN Baseline ELSE baselineRef

\* the two numbers of a frame of the wire grammar <tag><p>,<s>
FrameP(f) == parseFloat(split(slice1(f))[1])
FrameS(f) == parseFloat(split(slice1(f))[2])

\* C1: when the manager is Connected and the link-level disconnect event is
\* handled (permissions granted), a device scan is running again afterwards
\* and the scan-duration counter is 0, with no button pressed.
C1_DisconnectResumesScan ==
  [][(DisconnectedEventOf(TRUE) /\ connectedDevice # NoDevice)
       => (Scanning' /\ scanTime' = 0)]_vars

\* C2: when a connect attempt fails (connect or service discovery rejects), a
\* device scan is running again afterwards, with no button pressed.
C2_ConnectFailureRescans ==
  [][ConnectFailed => Scanning']_vars

\* C3: when the notification stream reports an error while Connected
\* (permissions granted), a device scan is running again afterwards, with no
\* button pressed.
C3_StreamErrorRescans ==
  [][(NotificationErrorOf(TRUE) /\ connectedDevice # NoDevice)
       => Scanning']_vars

\* C4: the frames "X1,2", "B1" and "B1,abc", which do not match the wire
\* grammar, leave baseline, reference, reading and derived value unchanged,
\* whether they arrive as a notification or as a polled read.
C4_InvalidFrameIgnored ==
  [][\A f \in {FrameX, FrameShort, FrameAbc} :
       (~IsValid(f) /\ (NotificationOf(f) \/ PollReadOf(f)))
         => UNCHANGED <<Baseline, baselineRef, Vref, Reading, Value>>]_vars

\* C5: in every state where a notification can be delivered, the dispatch
\* of a Baseline frame "B<p>,<s>" of the wire grammar leaves the baseline at
\* p, the reading at s and the derived value at s - p.
C5_BaselineFrameApplied ==
  \A f \in Frames :
    (/\ IsValid(f) /\ f[1] = "B"
     /\ life = "mounted" /\ link = "up" /\ monitors # <<>>)
      => LET r == deliver(Cur, 1, f)
         IN  /\ r.baselineRef = FrameP(f) /\ r.Baseline = FrameP(f)
             /\ r.Reading = FrameS(f)
             /\ r.Value = Minus(FrameS(f), FrameP(f))

\* C6: in the timer, auto and poll variants a Reference frame "V<p>,<s>"
\* processed while a baseline b is known sets the reference to p and the
\* reading to s, keeps the baseline b and sets the derived value to s - b.
C6_ReferenceFrameApplied ==
  [][\A f \in Frames :
       (/\ variant # "log" /\ IsValid(f) /\ f[1] = "V"
        /\ CalBaseline # Null /\ ~isNaN(CalBaseline)
        /\ (NotificationOf(f) \/ PollReadOf(f)))
         => /\ Vref' = FrameP(f) /\ Reading' = FrameS(f)
            /\ CalBaseline' = CalBaseline
            /\ Value' = Minus(FrameS(f), CalBaseline)]_vars

\* C7: in every reachable state of the variants that keep the calibration
\* baseline in baselineRef (timer, auto, log), the derived value is present
\* only if that baseline is present. The poll variant keeps no such store:
\* its deriver subtracts the Baseline of a render snapshot.
C7_ValueNeedsBaseline ==
  variant # "poll" => (Value # Null => baselineRef # Null)

\* a value derived from a Reference frame is on display
C7_ValueDerived ==
  variant # "poll" /\ Value # Null /\ Vref # Null /\ baselineRef # Null

\* C8: a notification processed by the one live subscription while the
\* session is Active, and yielding a derived value, adds exactly one row to
\* the session's buffer.
C8_RowPerActiveValue ==
  [][\A f \in Frames :
       (/\ variant = "log" /\ isLogging /\ Len(monitors) = 1
        /\ IsMatch(f) /\ NotificationOf(f) /\ Value' # Null)
         => Len(logEntries') = Len(logEntries) + 1]_vars

\* C9: no file of the export sink holds a session without data rows (a
\* header alone): stopping such a session writes nothing.
C9_NoHeaderOnlyFile ==
  \A i \in DOMAIN files : LineCount(files[i]) > 5

\* C10: startLogging called while the session is Active and holds data rows
\* leaves the recorded rows and the start time unchanged.
C10_StartWhileActiveRejected ==
  [][(CallStartLogging /\ isLogging /\ Len(logEntries) > 1)
       => (logEntries' = logEntries
           /\ loggingStartTime' = loggingStartTime)]_vars

\* a scan-duration interval is active
ScanTimerActive == \E t \in timers : t.kind = "scan"

\* C11: a scan-duration interval is active only while a device scan is
\* running and no device is connected (the manager is Scanning, not
\* Connecting, Connected or Idle).
C11_ScanTimerOnlyWhileScanning ==
  ScanTimerActive => (Scanning /\ connectedDevice = NoDevice)

\* C12: at most one notification subscription is alive at any time, so a
\* notification runs the decode/derive callback once.
C12_OneSubscription == Len(monitors) <= 1

\* C13: an explicit disconnect (the Disconnect button) leaves no connect
\* attempt in flight: every pending attempt is cancelled, so none can
\* complete later.
C13_StopCancelsAttempt == [][PressDisconnect => attempts' = <<>>]_vars

\* C14: startScanAndConnect called (permissions granted) while the manager is
\* not Idle (connecting set, or a device connected) leaves
\* the connection state, the running scan, the scan-duration counter and the
\* connect attempts in flight as they were.
C14_StartIdempotent ==
  (/\ life = "mounted" /\ variant # "poll"
   /\ (connecting \/ connectedDevice # NoDevice)
   /\ (variant # "auto" => CanStartScanTimer(Cur)))
    => LET r == startScanAndConnect(Cur, Capture(Cur), TRUE)
       IN  /\ r.connecting = connecting
           /\ r.connectedDevice = connectedDevice
           /\ r.scanListener.on = scanListener.on
           /\ r.scanTime = scanTime
           /\ r.attempts = attempts

\* C15: in no state is the manager both scanning or connecting (connecting
\* set or a device scan running) and connected (connectedDevice set).
C15_ExclusiveState ==
  ~((connecting \/ Scanning) /\ connectedDevice # NoDevice)

\* -------------------------------------------------------------- live graph
\* const MAX_GRAPH_SECONDS = 10
MAX_GRAPH_SECONDS == 10

\* (now - t0) / 1000: milliseconds to seconds, as a number
Seconds(ms) == Num(ms * (Pow10(FracDigits) \div 1000))

\* the updater with a filter that keeps the point exactly 10 s old
setGraphDataInclusive(data, value, now) ==
  LET keep(d) == now - d.timestamp <= MAX_GRAPH_SECONDS * 1000
      first == IF data = <<>> THEN now ELSE data[1].timestamp
  IN  SelectSeq(data, keep)
        \o <<[x |-> value, y |-> Seconds(now - first), timestamp |-> now]>>

\* setGraphData((data) => [...data.filter((d) => now - d.timestamp <
\*   MAX_GRAPH_SECONDS * 1000), { x: value, y: (now - (data[0]?.timestamp ??
\*   now)) / 1000, timestamp: now }])
setGraphData(data, value, now) ==
  LET keep(d) == now - d.timestamp < MAX_GRAPH_SECONDS * 1000
      first == IF data = <<>> THEN now ELSE data[1].timestamp
  IN  SelectSeq(data, keep)
        \o <<[x |-> value, y |-> Seconds(now - first), timestamp |-> now]>>

\* derived values the notification callback can insert
GraphValues == {Minus(FrameS(FrameB), FrameP(FrameB)),
                Minus(FrameS(FrameB2), FrameP(FrameB2))}

\* times between two notifications, in ms
ClockSteps == {1000, 9999}

\* the app variables the graph's runs leave alone
appVars == <<variant, life, Baseline, Vref, Reading, Value, baselineRef,
             connectedDevice, connecting, scanTime, connectedTime,
             scanTimerRef, connectedTimerRef, readInterval, scanning, devices,
             isLogging, loggingStartTime, logEntries, timers, scanTimeouts,
             scanListener, attempts, monitors, onDisconnected, pendingDisc,
             link, exports, files>>

\* time passes
ClockTick ==
  /\ \E d \in ClockSteps : clock + d <= MaxClock /\ clock' = clock + d
  /\ UNCHANGED <<appVars, graphData>>

\* the notification callback derives a value at Date.now() = clock
GraphInsert ==
  /\ Len(graphData) < MaxWindow
  /\ \E value \in GraphValues :
       graphData' = setGraphData(graphData, value, clock)
  /\ UNCHANGED <<appVars, clock>>

\* disconnect(): setGraphData([])
GraphClear ==
  /\ graphData # <<>>
  /\ graphData' = <<>>
  /\ UNCHANGED <<appVars, clock>>

NextWindow == ClockTick \/ GraphInsert \/ GraphClear

SpecWindow == InitLog /\ [][NextWindow]_vars

\* notifications arriving within one millisecond: the clock stands still and
\* one value is inserted again and again
BurstInsert ==
  /\ Len(graphData) < MaxBurst
  /\ graphData' = setGraphData(graphData, Minus(FrameS(FrameB), FrameP(FrameB)), clock)
  /\ UNCHANGED <<appVars, clock>>

SpecBurst == InitLog /\ [][BurstInsert]_vars

\* C16: for every window and instant the graph's run reaches, inserting a
\* value at that instant gives a window with no point 10 s old or older, made
\* of the earlier points younger than 10 s, in order, followed by the new
\* point; and inserting at 0 s, 5 s and 11 s into the empty window leaves
\* exactly the points of 5 s and 11 s.
C16_WindowEviction ==
  /\ \A value \in GraphValues :
       LET w == setGraphData(graphData, value, clock)
           young(d) == clock - d.timestamp < 10000
       IN  /\ \A i \in DOMAIN w : clock - w[i].timestamp < 10000
           /\ SubSeq(w, 1, Len(w) - 1) = SelectSeq(graphData, young)
           /\ w[Len(w)].x = value /\ w[Len(w)].timestamp = clock
  /\ \A value \in GraphValues :
       LET w == setGraphData(setGraphData(setGraphData(<<>>, value, 0),
                                          value, 5000), value, 11000)
       IN  [i \in DOMAIN w |-> w[i].timestamp] = <<5000, 11000>>

\* the window after inserts at 0 s, 5 s and 11 s: y is the time since the
\* first point of the window the insert found
C16_InsertedAt0And5And11 ==
  /\ clock = 11000 /\ Len(graphData) = 2
  /\ graphData[1].timestamp = 5000 /\ graphData[1].y = Seconds(5000)
  /\ graphData[2].timestamp = 11000 /\ graphData[2].y = Seconds(11000)

\* C17: the window never holds more than 100 points.
C17_AtMostMaxPoints == Len(graphData) <= 100

\* C18: when the export of a stopped session that holds data rows is
\* written, the buffer of log entries is empty afterwards.
C18_BufferClearedOnExport ==
  [][(ExportWritten /\ ~isLogging /\ Len(logEntries) > 1)
       => logEntries' = <<>>]_vars

\* the entries of the buffer are all still there, in place
RowsKept == /\ Len(logEntries') >= Len(logEntries)
            /\ \A i \in DOMAIN logEntries : logEntries'[i] = logEntries[i]

C20_BaselineMirrorsRef ==
  (variant # "poll" /\ connectedDevice # NoDevice /\ Value # Null)
    => Baseline = baselineRef

\* ------------------------------------------------- exports in quick succession
\* exports in flight or written, when a session can be stopped while an
\* earlier export is still in flight
MaxInFlight == 2

\* Button "Stop Logging" pressed while earlier exports may be in flight
PressStopLoggingAgain ==
  /\ life = "mounted" /\ variant = "log"
  /\ connectedDevice # NoDevice /\ isLogging
  /\ Len(exports) + Len(files) < MaxInFlight
  /\ Commit(stopLogging(Cur))

\* one connection of the log variant on which sessions are started and
\* stopped, each step of an export being a step of its own
NextExport ==
  \/ Mount \/ PressConnect \/ ScanFound \/ ConnectResolved \/ Connected
  \/ Notification \/ PressStartLogging \/ PressStopLoggingAgain
  \/ ExportNamed \/ ExportWritten \/ ExportFailed

SpecExport == InitLog /\ [][NextExport]_vars

\* C21: a file is written under a name that no file of logs/ has at the
\* time of the write, the next free n, so no file is overwritten.
C21_ExportNeverOverwrites ==
  [][\A i \in DOMAIN exports :
       (exports[i].n # 0 /\ Commit(exportWritten(Cur, i)))
         => (exports[i].n = Len(files) + 1 /\ Len(files') = Len(files) + 1)]_vars

\* C22: once the component is unmounted no interval started by it is active.
C22_NoTimerAfterUnmount == life = "unmounted" => timers = {}

\* nothing of a connection is on display
DisplayCleared ==
  /\ connectedDevice = NoDevice
  /\ Baseline = Null /\ Vref = Null /\ Reading = Null /\ Value = Null

\* C23: after disconnect() has run, called by the Disconnect button, by the
\* onDisconnected handlers or by the notification callback on an error
\* (the log variant's callback ignores errors), connectedDevice is null and
\* Baseline, Vref, Reading and Value are absent.
C23_DisconnectClearsDisplay ==
  [][(\/ PressDisconnect
      \/ DisconnectedEventOf(TRUE)
      \/ (NotificationErrorOf(TRUE) /\ variant # "log"))
       => DisplayCleared']_vars

\* the read-poll intervals that are active
ReadTimers == {t \in timers : t.kind = "read"}

\* C24: in the polling variant, while the component is mounted, at most one
\* read-poll interval is active, and one is active only while a device is
\* connected and its link is up.
C24_ReadIntervalOnlyWhileConnected ==
  (variant = "poll" /\ life = "mounted")
    => /\ Cardinality(ReadTimers) <= 1
       /\ ReadTimers # {} => (connectedDevice # NoDevice /\ link = "up")

\* C25: in the polling variant, when a timeout fires that an earlier startScan
\* scheduled (another timeout is still pending behind it) while the scan of
\* the latest startScan is running, that scan keeps running.
C25_StaleTimeoutKeepsScan ==
  [][(ScanTimeout /\ scanTimeouts > 1 /\ Scanning) => Scanning']_vars

====
